---- MODULE Spec2Model ----
(***************************************************************************)
(* State-machine model of deliver.py: one invocation of deliver() handles *)
(* one message read from stdin.  Invocations share the archive directory  *)
(* (files), the sqlite table most_recent_post (posts) and the wall clock  *)
(* (now).  Each element of Procs is an invocation slot; a slot whose run  *)
(* has ended can be reused by a later invocation.                         *)
(***************************************************************************)
EXTENDS Integers, Sequences, FiniteSets, TLC

VARIABLES config, now, files, dirExists, posts, active,
          pc, runs, sender, pathname_base, dbOpen,
          remaining, success, fail, succeeded, failed,
          sessions, attempts, sendResult, wrote, checked, posts0, sendEnd, err,
          smtpOpen, passed,
          hdrcfg, headers0, headers, headers1, fstage

vars == <<config, now, files, dirExists, posts, active,
          pc, runs, sender, pathname_base, dbOpen,
          remaining, success, fail, succeeded, failed,
          sessions, attempts, sendResult, wrote, checked, posts0, sendEnd, err,
          smtpOpen, passed,
          hdrcfg, headers0, headers, headers1, fstage>>

pipeline == <<config, now, files, dirExists, posts, active,
              pc, runs, sender, pathname_base, dbOpen,
              remaining, success, fail, succeeded, failed,
              sessions, attempts, sendResult, wrote, checked, posts0, sendEnd, err,
              smtpOpen, passed>>

rewrite == <<hdrcfg, headers0, headers, headers1, fstage>>

\* ------------------------------------------------------------------ bounds
MaxRuns == 2        \* invocations in one behaviour
StartTime == 2      \* clock value of the initial state (seconds)
MaxTime == 4        \* the clock stops advancing here
Window == 2         \* config['per_user_ratelimit_secs'], scaled down
MaxHeaders == 3     \* headers of an incoming message
MaxSetHeaders == 2  \* pairs in config['set_headers']

\* --------------------------------------------------------------- constants
MaxRetry == 10      \* while retry < 10

None == "None"
NoRow == <<>>          \* fetchone() found nothing
NoBase == <<>>         \* self._pathname_base = None
Procs == {1, 2}
Recipients == {"r1", "r2", "r3"}      \* the members of the list
Senders == {"r1", "eve"}        \* address parsed from the From header
Outcomes == {"accepted", "rejected", "disconnect"}


\* ------------------------------------------------------------ Config
\* recipients: the full list, a list of one (two concurrent invocations), none
RecipientSets == {Recipients, {"r1"}, {}}
Configs == [reject_non_recipients : BOOLEAN, archive_dir : {None, "dir"}, db : {None, "db"},
            recipients : RecipientSets]

\* ------------------------------------------------------------ Archive
\* open(path, 'wb'): creates or truncates; it never raises FileExistsError
open_raises_FileExists(fs, path) == FALSE

\* Archive._write: the file at path holds exactly payload afterwards
Archive_write(fs, path, payload) ==
    [q \in (DOMAIN fs) \cup {path} |-> IF q = path THEN payload ELSE fs[q]]

\* "{:016.0f}-{:03d}".format(time.time(), retry): injective on whole seconds
\* below 10^16 and counters below 1000, kept as the pair it is built from
format_base(t, retry) == <<t, retry>>

\* the while loop of _create_and_write, first branch
RECURSIVE create_loop(_, _, _, _, _)
create_loop(fs, t, ext, payload, retry) ==
    IF retry < MaxRetry
    THEN LET pathname_base_ == format_base(t, retry)
             path == <<pathname_base_, ext>>
         IN IF open_raises_FileExists(fs, path)
            THEN create_loop(fs, t, ext, payload, retry + 1)
            ELSE [raised |-> FALSE, base |-> pathname_base_, path |-> path,
                  files |-> Archive_write(fs, path, payload)]
    ELSE [raised |-> TRUE, base |-> NoBase, path |-> <<>>, files |-> fs]

\* variant: the basename derived afresh on every call
create_and_write_fresh(base, fs, t, ext, payload) ==
    create_loop(fs, t, ext, payload, 0)

\* Archive._create_and_write(ext, func)
create_and_write(base, fs, t, ext, payload) ==
    IF base = NoBase
    THEN create_loop(fs, t, ext, payload, 0)
    ELSE [raised |-> FALSE, base |-> base, path |-> <<base, ext>>,
          files |-> Archive_write(fs, <<base, ext>>, payload)]

\* ------------------------------------------------------------ DB
\* SELECT timestamp FROM most_recent_post WHERE recipient=?; fetchone()
\* gives the row as a tuple, or NoRow for Python's None
select_timestamp(tbl, recipient) == IF recipient \in DOMAIN tbl THEN <<tbl[recipient]>> ELSE NoRow

\* variant: the window left out of the comparison
is_rate_limited_no_window(results, t) ==
    LET timestamp == IF results # NoRow THEN results[1] ELSE 0
    IN timestamp > t

\* variant: the boundary t = timestamp + window counted as limited
is_rate_limited_inclusive(results, t) ==
    LET timestamp == IF results # NoRow THEN results[1] ELSE 0
    IN timestamp + Window >= t

\* DB.is_rate_limited, results the row fetched and t the value of time.time()
is_rate_limited(results, t) ==
    LET timestamp == IF results # NoRow THEN results[1] ELSE 0
    IN timestamp + Window > t

\* variant: INSERT OR IGNORE, an existing row keeps its timestamp
insert_or_ignore(tbl, recipient, t) ==
    [x \in (DOMAIN tbl) \cup {recipient} |-> IF x \in DOMAIN tbl THEN tbl[x] ELSE t]

\* variant: the write is never committed
replace_into_uncommitted(tbl, recipient, t) == tbl

\* variant: the table is emptied before the row is written
replace_into_only(tbl, recipient, t) == [x \in {recipient} |-> t]

\* REPLACE INTO most_recent_post(recipient, timestamp)
replace_into(tbl, recipient, t) ==
    [x \in (DOMAIN tbl) \cup {recipient} |-> IF x = recipient THEN t ELSE tbl[x]]

\* ------------------------------------------------------------ Outgoing
\* variant: a lost connection handled like any other error
send_one_result_swallows(outcome) ==
    CASE outcome = "accepted" -> "True"
      [] OTHER -> "False"

\* variant: every error re-raised
send_one_result_reraises(outcome) ==
    CASE outcome = "accepted" -> "True"
      [] OTHER -> "raise"

\* Outgoing._send_one: True, False, or SMTPServerDisconnected re-raised
send_one_result(outcome) ==
    CASE outcome = "accepted" -> "True"
      [] outcome = "disconnect" -> "raise"
      [] OTHER -> "False"

\* The recipients are a Python set: the order of "for recipient in recipients",
\* of list(set(recipients) - success) and of the lines joined from succeeded
\* is the set's iteration order, which the language leaves open.  The lists
\* fail and failed and the recipient-list payloads therefore carry no order
\* of their own and are kept as the set of their elements (no recipient is
\* iterated twice, so no element repeats).

\* variant: the disconnect handler leaves fail as it is
disconnect_fail_keeps(recipients, success_, fail_) == fail_

\* except SMTPServerDisconnected: fail = list(set(recipients) - success)
disconnect_fail(recipients, success_, fail_) == recipients \ success_

\* one iteration of the for loop of Outgoing.send, res the result of _send_one
send_step(recipients, success_, fail_, r, res) ==
    CASE res = "True" -> [success |-> success_ \cup {r}, fail |-> fail_, stop |-> FALSE]
      [] res = "False" -> [success |-> success_, fail |-> fail_ \cup {r}, stop |-> FALSE]
      [] OTHER -> [success |-> success_, fail |-> disconnect_fail(recipients, success_, fail_),
                   stop |-> TRUE]

\* '\n'.join(recipients).encode('utf-8')
join_lines(recipients) == recipients

\* variant: the flag read the wrong way round
not_a_member_flag_inverted(cfg, sender_email) ==
    ~cfg.reject_non_recipients /\ sender_email \notin cfg.recipients

\* _deliver_message: reject_non_recipients and sender_email not in recipients
not_a_member(cfg, sender_email) ==
    cfg.reject_non_recipients /\ sender_email \notin cfg.recipients

\* the raw message read from stdin
message_bytes(p) == <<"message", p, runs[p], sender[p]>>

\* Outgoing.__exit__ returns True: an exception leaving send is swallowed
Outgoing_exit_swallows == TRUE

\* ------------------------------------------------------------ header rewrite
\* header names of incoming messages, in several spellings
HeaderNames == {"Subject", "subject", "X-List", "x-list", "X-Evil"}

\* str.lower() on those names
lower(name) ==
    CASE name \in {"Subject", "subject"} -> "subject"
      [] name \in {"X-List", "x-list"} -> "x-list"
      [] name = "X-Evil" -> "x-evil"
      [] OTHER -> name

\* header values are strings, kept as sequences of characters
HeaderValues == {<<"a">>, <<"b">>}
SetValues == {<<" ", "t", " ">>, <<"u">>}
SetNames == {"X-List", "x-list", "Subject"}
Whitelists == {{"subject"}, {"subject", "x-list"}}

SeqsUpTo(S, n) == UNION {[1..k -> S] : k \in 0..n}

\* str.strip(): leading and trailing whitespace removed
RECURSIVE lstrip(_)
lstrip(v) == IF v # <<>> /\ Head(v) = " " THEN lstrip(Tail(v)) ELSE v
RECURSIVE rstrip(_)
rstrip(v) == IF v # <<>> /\ v[Len(v)] = " " THEN rstrip(SubSeq(v, 1, Len(v) - 1)) ELSE v
strip(v) == rstrip(lstrip(v))

\* variant: only the header spelled exactly like name is removed
Message_delitem_exact(h, name) ==
    LET keep(e) == e[1] # name IN SelectSeq(h, keep)

\* Message.__delitem__: every header whose name matches, whatever its case
Message_delitem(h, name) ==
    LET keep(e) == lower(e[1]) # lower(name) IN SelectSeq(h, keep)

\* Message.__setitem__: the header is appended
Message_setitem(h, name, val) == Append(h, <<name, val>>)

\* variant: the loop walks the list it is deleting from
RECURSIVE whitelist_loop_live(_, _, _, _)
whitelist_loop_live(snapshot, i, h, wl) ==
    IF i > Len(h) THEN h
    ELSE whitelist_loop_live(snapshot, i + 1,
                             IF lower(h[i][1]) \notin wl THEN Message_delitem(h, h[i][1]) ELSE h, wl)

\* for header in message: if header.lower() not in whitelist: del message[header]
\* (Message.__iter__ walks the list the message had when the loop began)
RECURSIVE whitelist_loop(_, _, _, _)
whitelist_loop(snapshot, i, h, wl) ==
    IF i > Len(snapshot) THEN h
    ELSE whitelist_loop(snapshot, i + 1,
                        IF lower(snapshot[i][1]) \notin wl
                        THEN Message_delitem(h, snapshot[i][1]) ELSE h, wl)

\* variant: the forced header is added without removing the old ones
RECURSIVE set_headers_loop_no_del(_, _, _)
set_headers_loop_no_del(set_headers, i, h) ==
    IF i > Len(set_headers) THEN h
    ELSE set_headers_loop_no_del(set_headers, i + 1,
            Message_setitem(h, set_headers[i][1], strip(set_headers[i][2])))

\* for header, value in set_headers: del message[header];
\* message[header] = value.strip()
RECURSIVE set_headers_loop(_, _, _)
set_headers_loop(set_headers, i, h) ==
    IF i > Len(set_headers) THEN h
    ELSE set_headers_loop(set_headers, i + 1,
            Message_setitem(Message_delitem(h, set_headers[i][1]),
                            set_headers[i][1], strip(set_headers[i][2])))

\* no message is being rewritten
FilterIdle ==
    /\ hdrcfg = [header_whitelist |-> {"subject"}, set_headers |-> <<>>]
    /\ headers0 = <<>>
    /\ headers = <<>>
    /\ headers1 = <<>>
    /\ fstage = [pass |-> 0, step |-> "off"]

\* ------------------------------------------------------------ Init
InitCommon ==
    /\ config \in Configs
    /\ now = StartTime
    /\ files = <<>>
    /\ dirExists = FALSE
    /\ posts = <<>>
    /\ pc = [p \in Procs |-> "idle"]
    /\ runs = [p \in Procs |-> 0]
    /\ sender = [p \in Procs |-> None]
    /\ pathname_base = [p \in Procs |-> NoBase]
    /\ dbOpen = [p \in Procs |-> FALSE]
    /\ remaining = [p \in Procs |-> {}]
    /\ success = [p \in Procs |-> {}]
    /\ fail = [p \in Procs |-> {}]
    /\ succeeded = [p \in Procs |-> {}]
    /\ failed = [p \in Procs |-> {}]
    /\ sessions = [p \in Procs |-> 0]
    /\ attempts = [p \in Procs |-> <<>>]
    /\ sendResult = [p \in Procs |-> "none"]
    /\ wrote = [p \in Procs |-> {}]
    /\ checked = [p \in Procs |-> <<>>]
    /\ posts0 = [p \in Procs |-> <<>>]
    /\ sendEnd = [p \in Procs |-> 0]
    /\ err = [p \in Procs |-> None]
    /\ smtpOpen = [p \in Procs |-> FALSE]
    /\ passed = [s \in Senders |-> <<>>]

\* one invocation at a time
Init ==
    /\ InitCommon
    /\ config.recipients \in {Recipients, {}}
    /\ active = {1}
    /\ FilterIdle

\* two invocations that may overlap, for a list of one recipient
InitConc ==
    /\ InitCommon
    /\ config.recipients = {"r1"}
    /\ active = {1, 2}
    /\ FilterIdle

\* a parsed message about to be rewritten, no invocation running
InitFilter ==
    /\ InitCommon
    /\ config = [reject_non_recipients |-> TRUE, archive_dir |-> "dir", db |-> "db",
                 recipients |-> Recipients]
    /\ active = {}
    /\ hdrcfg \in [header_whitelist : Whitelists,
                    set_headers : SeqsUpTo(SetNames \X SetValues, MaxSetHeaders)]
    /\ headers0 \in SeqsUpTo(HeaderNames \X HeaderValues, MaxHeaders)
    /\ headers = headers0
    /\ headers1 = <<>>
    /\ fstage = [pass |-> 1, step |-> "whitelist"]

\* ------------------------------------------------------------ actions
Ended == {"idle", "rejected_not_recipient", "rejected_rate_limited", "completed", "crashed"}

\* deliver(): message_bytes = sys.stdin.buffer.read().  A slot is used again
\* for a later invocation only when it is the only slot.
deliver_read(p) ==
    /\ p \in active
    /\ pc[p] \in Ended
    /\ runs[p] = 0 \/ active = {p}
    /\ runs[1] + runs[2] < MaxRuns
    /\ \E s \in Senders : sender' = [sender EXCEPT ![p] = s]
    /\ runs' = [runs EXCEPT ![p] = @ + 1]
    /\ pc' = [pc EXCEPT ![p] = "Archive"]
    /\ pathname_base' = [pathname_base EXCEPT ![p] = NoBase]
    /\ dbOpen' = [dbOpen EXCEPT ![p] = FALSE]
    /\ remaining' = [remaining EXCEPT ![p] = {}]
    /\ success' = [success EXCEPT ![p] = {}]
    /\ fail' = [fail EXCEPT ![p] = {}]
    /\ succeeded' = [succeeded EXCEPT ![p] = {}]
    /\ failed' = [failed EXCEPT ![p] = {}]
    /\ sessions' = [sessions EXCEPT ![p] = 0]
    /\ attempts' = [attempts EXCEPT ![p] = <<>>]
    /\ sendResult' = [sendResult EXCEPT ![p] = "none"]
    /\ wrote' = [wrote EXCEPT ![p] = {}]
    /\ checked' = [checked EXCEPT ![p] = <<>>]
    /\ posts0' = [posts0 EXCEPT ![p] = posts]
    /\ sendEnd' = [sendEnd EXCEPT ![p] = 0]
    /\ err' = [err EXCEPT ![p] = None]
    /\ UNCHANGED rewrite
    /\ UNCHANGED <<smtpOpen, passed, config, now, files, dirExists, posts, active>>

\* a run ends by an exception that nothing catches
crash(p, what) ==
    /\ pc' = [pc EXCEPT ![p] = "crashed"]
    /\ err' = [err EXCEPT ![p] = what]
    /\ dbOpen' = [dbOpen EXCEPT ![p] = FALSE]

\* Archive.__init__: the key 'archive_dir' is always in config (Config.__init__
\* sets it to None), so os.path.exists(None) raises TypeError when it is unset
Archive_init(p) ==
    /\ p \in active
    /\ pc[p] = "Archive"
    /\ IF config.archive_dir = None
       THEN /\ crash(p, "Archive.__init__")
            /\ UNCHANGED dirExists
       ELSE /\ dirExists' = TRUE
            /\ pc' = [pc EXCEPT ![p] = "archive_original"]
            /\ UNCHANGED <<err, dbOpen>>
    /\ UNCHANGED rewrite
    /\ UNCHANGED <<smtpOpen, passed, config, now, files, posts, active, runs, sender, pathname_base,
                   remaining, success, fail, succeeded, failed,
                   sessions, attempts, sendResult, wrote, checked, posts0, sendEnd>>

\* the effect of one call of an Archive method that writes payload under ext
archive_call(p, ext, payload, nextpc) ==
    LET w == create_and_write(pathname_base[p], files, now, ext, payload)
    IN IF w.raised
       THEN /\ crash(p, "FileExistsError")
            /\ UNCHANGED <<files, pathname_base, wrote>>
       ELSE /\ files' = w.files
            /\ pathname_base' = [pathname_base EXCEPT ![p] = w.base]
            /\ wrote' = [wrote EXCEPT ![p] = @ \cup {w.path}]
            /\ pc' = [pc EXCEPT ![p] = nextpc]
            /\ err' = err
            /\ dbOpen' = [dbOpen EXCEPT ![p] = (nextpc # "completed") /\ @]

\* variant: the original is not written
archive_original_skips(p) ==
    /\ p \in active
    /\ pc[p] = "archive_original"
    /\ IF config.archive_dir = None
       THEN /\ pc' = [pc EXCEPT ![p] = "DB_enter"]
            /\ UNCHANGED <<files, pathname_base, wrote, err, dbOpen>>
       ELSE /\ pc' = [pc EXCEPT ![p] = "DB_enter"]
            /\ UNCHANGED <<files, pathname_base, wrote, err, dbOpen>>
    /\ UNCHANGED rewrite
    /\ UNCHANGED <<smtpOpen, passed, config, now, dirExists, posts, active, runs, sender,
                   remaining, success, fail, succeeded, failed,
                   sessions, attempts, sendResult, checked, posts0, sendEnd>>

\* Archive.archive_original(message_bytes)
archive_original(p) ==
    /\ p \in active
    /\ pc[p] = "archive_original"
    /\ IF config.archive_dir = None
       THEN /\ pc' = [pc EXCEPT ![p] = "DB_enter"]
            /\ UNCHANGED <<files, pathname_base, wrote, err, dbOpen>>
       ELSE archive_call(p, ".txt", message_bytes(p), "DB_enter")
    /\ UNCHANGED rewrite
    /\ UNCHANGED <<smtpOpen, passed, config, now, dirExists, posts, active, runs, sender,
                   remaining, success, fail, succeeded, failed,
                   sessions, attempts, sendResult, checked, posts0, sendEnd>>

\* deliver(): parse, then DB.__enter__: sqlite3.connect(config['db']) raises
\* TypeError when db is None
DB_enter(p) ==
    /\ p \in active
    /\ pc[p] = "DB_enter"
    /\ IF config.db = None
       THEN crash(p, "DB.__enter__")
       ELSE /\ dbOpen' = [dbOpen EXCEPT ![p] = TRUE]
            /\ pc' = [pc EXCEPT ![p] = "authorize"]
            /\ err' = err
    /\ UNCHANGED rewrite
    /\ UNCHANGED <<smtpOpen, passed, config, now, files, dirExists, posts, active, runs, sender, pathname_base,
                   remaining, success, fail, succeeded, failed,
                   sessions, attempts, sendResult, wrote, checked, posts0, sendEnd>>

\* _deliver_message: the authorization test
authorize(p) ==
    /\ p \in active
    /\ pc[p] = "authorize"
    /\ IF not_a_member(config, sender[p])
       THEN /\ pc' = [pc EXCEPT ![p] = "rejected_not_recipient"]
            /\ dbOpen' = [dbOpen EXCEPT ![p] = FALSE]
       ELSE /\ pc' = [pc EXCEPT ![p] = "rate_check"]
            /\ UNCHANGED dbOpen
    /\ UNCHANGED rewrite
    /\ UNCHANGED <<smtpOpen, passed, config, now, files, dirExists, posts, active, runs, sender, pathname_base,
                   remaining, success, fail, succeeded, failed,
                   sessions, attempts, sendResult, wrote, checked, posts0, sendEnd, err>>

\* variant: the check waits while another invocation of the same sender is
\* between its check and its update
rate_check_serialized(p) ==
    /\ p \in active
    /\ pc[p] = "rate_check"
    /\ \A q \in Procs \ {p} :
          ~(sender[q] = sender[p] /\ pc[q] \in {"smtp_open", "send_loop", "smtp_exit",
                                                 "smtp_exit_disconnected", "record"})
    /\ LET results == select_timestamp(posts, sender[p])
           limited == is_rate_limited(results, now)
       IN /\ checked' = [checked EXCEPT ![p] = <<results, now, limited>>]
          /\ IF limited
             THEN /\ pc' = [pc EXCEPT ![p] = "rejected_rate_limited"]
                  /\ dbOpen' = [dbOpen EXCEPT ![p] = FALSE]
                  /\ UNCHANGED passed
             ELSE /\ pc' = [pc EXCEPT ![p] = "smtp_open"]
                  /\ passed' = [passed EXCEPT ![sender[p]] = Append(@, now)]
                  /\ UNCHANGED dbOpen
    /\ UNCHANGED rewrite
    /\ UNCHANGED <<smtpOpen, config, now, files, dirExists, posts, active, runs, sender, pathname_base,
                   remaining, success, fail, succeeded, failed,
                   sessions, attempts, sendResult, wrote, posts0, sendEnd, err>>

\* _deliver_message: if db.is_rate_limited(sender_email): return.  The header
\* rewrite that follows changes the message only and is modelled on its own
\* (filter_whitelist, filter_set_headers); passed keeps the times of the checks
\* each sender has passed.
rate_check(p) ==
    /\ p \in active
    /\ pc[p] = "rate_check"
    /\ LET results == select_timestamp(posts, sender[p])
           limited == is_rate_limited(results, now)
       IN /\ checked' = [checked EXCEPT ![p] = <<results, now, limited>>]
          /\ IF limited
             THEN /\ pc' = [pc EXCEPT ![p] = "rejected_rate_limited"]
                  /\ dbOpen' = [dbOpen EXCEPT ![p] = FALSE]
                  /\ UNCHANGED passed
             ELSE /\ pc' = [pc EXCEPT ![p] = "smtp_open"]
                  /\ passed' = [passed EXCEPT ![sender[p]] = Append(@, now)]
                  /\ UNCHANGED dbOpen
    /\ UNCHANGED rewrite
    /\ UNCHANGED <<smtpOpen, config, now, files, dirExists, posts, active, runs, sender, pathname_base,
                   remaining, success, fail, succeeded, failed,
                   sessions, attempts, sendResult, wrote, posts0, sendEnd, err>>

\* an exception leaves Outgoing.send: Outgoing.__exit__ decides what follows
send_raised(p) ==
    /\ sendResult' = [sendResult EXCEPT ![p] = "raised"]
    /\ sendEnd' = [sendEnd EXCEPT ![p] = now]
    /\ IF Outgoing_exit_swallows
       THEN /\ pc' = [pc EXCEPT ![p] = "record"]
            /\ UNCHANGED <<err, dbOpen>>
       ELSE crash(p, "Outgoing.send")

\* Outgoing.send: fail = [], success = set(), smtplib.SMTP(host, port) connects
smtp_open(p) ==
    /\ p \in active
    /\ pc[p] = "smtp_open"
    /\ success' = [success EXCEPT ![p] = {}]
    /\ fail' = [fail EXCEPT ![p] = {}]
    /\ \E connected \in BOOLEAN :
         IF connected
         THEN /\ sessions' = [sessions EXCEPT ![p] = @ + 1]
              /\ smtpOpen' = [smtpOpen EXCEPT ![p] = TRUE]
              /\ remaining' = [remaining EXCEPT ![p] = config.recipients]
              /\ pc' = [pc EXCEPT ![p] = IF config.recipients = {} THEN "smtp_exit" ELSE "send_loop"]
              /\ UNCHANGED <<sendResult, sendEnd, err, dbOpen>>
         ELSE /\ send_raised(p)
              /\ UNCHANGED <<sessions, remaining, smtpOpen>>
    /\ UNCHANGED rewrite
    /\ UNCHANGED <<passed, config, now, files, dirExists, posts, active, runs, sender, pathname_base,
                   succeeded, failed, attempts, wrote, checked, posts0>>

\* variant: a rejected recipient stays in the loop and is tried again
send_one_retries(p) ==
    /\ p \in active
    /\ pc[p] = "send_loop"
    /\ \E r \in remaining[p], o \in Outcomes :
         LET st == send_step(config.recipients, success[p], fail[p], r, send_one_result(o))
         IN /\ attempts' = [attempts EXCEPT ![p] = Append(@, <<r, o>>)]
            /\ success' = [success EXCEPT ![p] = st.success]
            /\ fail' = [fail EXCEPT ![p] = st.fail]
            /\ remaining' = [remaining EXCEPT ![p] = IF o = "rejected" THEN @ ELSE @ \ {r}]
            /\ pc' = [pc EXCEPT ![p] = IF st.stop THEN "smtp_exit_disconnected"
                                       ELSE IF remaining[p] = {r} /\ o # "rejected" THEN "smtp_exit"
                                       ELSE "send_loop"]
    /\ UNCHANGED rewrite
    /\ UNCHANGED <<smtpOpen, passed, config, now, files, dirExists, posts, active, runs, sender, pathname_base,
                   dbOpen, succeeded, failed, sessions, sendResult, wrote, checked,
                   posts0, sendEnd, err>>

\* Outgoing.send: one iteration of "for recipient in recipients" (a set, so
\* in any order), the server answering with any outcome
send_one(p) ==
    /\ p \in active
    /\ pc[p] = "send_loop"
    /\ \E r \in remaining[p], o \in Outcomes :
         LET st == send_step(config.recipients, success[p], fail[p], r, send_one_result(o))
         IN /\ attempts' = [attempts EXCEPT ![p] = Append(@, <<r, o>>)]
            /\ success' = [success EXCEPT ![p] = st.success]
            /\ fail' = [fail EXCEPT ![p] = st.fail]
            /\ remaining' = [remaining EXCEPT ![p] = @ \ {r}]
            /\ pc' = [pc EXCEPT ![p] = IF st.stop THEN "smtp_exit_disconnected"
                                       ELSE IF remaining[p] = {r} THEN "smtp_exit"
                                       ELSE "send_loop"]
    /\ UNCHANGED rewrite
    /\ UNCHANGED <<smtpOpen, passed, config, now, files, dirExists, posts, active, runs, sender, pathname_base,
                   dbOpen, succeeded, failed, sessions, sendResult, wrote, checked,
                   posts0, sendEnd, err>>

\* Outgoing.send: leaving "with smtplib.SMTP(...)" sends QUIT.  On a lost
\* connection SMTP.__exit__ swallows SMTPServerDisconnected; otherwise a reply
\* other than 221 raises SMTPResponseException out of send; either way the
\* finally clause of SMTP.__exit__ closes the session.
smtp_exit(p) ==
    /\ p \in active
    /\ pc[p] \in {"smtp_exit", "smtp_exit_disconnected"}
    /\ smtpOpen' = [smtpOpen EXCEPT ![p] = FALSE]
    /\ \E quit221 \in BOOLEAN :
         IF quit221 \/ pc[p] = "smtp_exit_disconnected"
         THEN /\ succeeded' = [succeeded EXCEPT ![p] = success[p]]
              /\ failed' = [failed EXCEPT ![p] = fail[p]]
              /\ sendResult' = [sendResult EXCEPT ![p] = "returned"]
              /\ sendEnd' = [sendEnd EXCEPT ![p] = now]
              /\ pc' = [pc EXCEPT ![p] = "record"]
              /\ UNCHANGED <<err, dbOpen>>
         ELSE /\ send_raised(p)
              /\ UNCHANGED <<succeeded, failed>>
    /\ UNCHANGED rewrite
    /\ UNCHANGED <<passed, config, now, files, dirExists, posts, active, runs, sender, pathname_base,
                   remaining, success, fail, sessions, attempts, wrote, checked, posts0>>

\* DB.set_did_just_post(sender_email)
set_did_just_post(p) ==
    /\ p \in active
    /\ pc[p] = "record"
    /\ posts' = replace_into(posts, sender[p], now)
    /\ pc' = [pc EXCEPT ![p] = "log_failed"]
    /\ UNCHANGED rewrite
    /\ UNCHANGED <<smtpOpen, passed, config, now, files, dirExists, active, runs, sender, pathname_base, dbOpen,
                   remaining, success, fail, succeeded, failed,
                   sessions, attempts, sendResult, wrote, checked, posts0, sendEnd, err>>

\* _deliver_message: if failed: archive.log_failed(failed)
log_failed(p) ==
    /\ p \in active
    /\ pc[p] = "log_failed"
    /\ IF failed[p] # {} /\ config.archive_dir # None
       THEN archive_call(p, "-fail.txt", join_lines(failed[p]), "log_succeeded")
       ELSE /\ pc' = [pc EXCEPT ![p] = "log_succeeded"]
            /\ UNCHANGED <<files, pathname_base, wrote, err, dbOpen>>
    /\ UNCHANGED rewrite
    /\ UNCHANGED <<smtpOpen, passed, config, now, dirExists, posts, active, runs, sender,
                   remaining, success, fail, succeeded, failed,
                   sessions, attempts, sendResult, checked, posts0, sendEnd>>

\* _deliver_message: if succeeded: archive.log_succeeded(succeeded); then
\* DB.__exit__
log_succeeded(p) ==
    /\ p \in active
    /\ pc[p] = "log_succeeded"
    /\ IF succeeded[p] # {} /\ config.archive_dir # None
       THEN archive_call(p, "-succeeded.txt", join_lines(succeeded[p]), "completed")
       ELSE /\ pc' = [pc EXCEPT ![p] = "completed"]
            /\ dbOpen' = [dbOpen EXCEPT ![p] = FALSE]
            /\ UNCHANGED <<files, pathname_base, wrote, err>>
    /\ UNCHANGED rewrite
    /\ UNCHANGED <<smtpOpen, passed, config, now, dirExists, posts, active, runs, sender,
                   remaining, success, fail, succeeded, failed,
                   sessions, attempts, sendResult, checked, posts0, sendEnd>>

\* time.time() advances
Tick ==
    /\ now < MaxTime
    /\ now' = now + 1
    /\ UNCHANGED rewrite
    /\ UNCHANGED <<smtpOpen, passed, config, files, dirExists, posts, active,
                   pc, runs, sender, pathname_base, dbOpen,
                   remaining, success, fail, succeeded, failed,
                   sessions, attempts, sendResult, wrote, checked, posts0, sendEnd, err>>

\* _deliver_message: the whitelist loop over the headers
filter_whitelist ==
    /\ fstage.step = "whitelist"
    /\ headers' = whitelist_loop(headers, 1, headers, hdrcfg.header_whitelist)
    /\ fstage' = [fstage EXCEPT !.step = "set_headers"]
    /\ UNCHANGED <<hdrcfg, headers0, headers1>>
    /\ UNCHANGED pipeline

\* _deliver_message: the loop over config['set_headers']
filter_set_headers ==
    /\ fstage.step = "set_headers"
    /\ headers' = set_headers_loop(hdrcfg.set_headers, 1, headers)
    /\ headers1' = IF fstage.pass = 1 THEN headers' ELSE headers1
    /\ fstage' = [fstage EXCEPT !.step = "rewritten"]
    /\ UNCHANGED <<hdrcfg, headers0>>
    /\ UNCHANGED pipeline

\* the rewritten message is given to the rewrite once more
filter_again ==
    /\ fstage.step = "rewritten"
    /\ fstage.pass = 1
    /\ fstage' = [pass |-> 2, step |-> "whitelist"]
    /\ UNCHANGED <<hdrcfg, headers0, headers, headers1>>
    /\ UNCHANGED pipeline

NextFilter ==
    \/ filter_whitelist
    \/ filter_set_headers
    \/ filter_again

Next ==
    \/ \E p \in Procs :
         \/ deliver_read(p)
         \/ Archive_init(p)
         \/ archive_original(p)
         \/ DB_enter(p)
         \/ authorize(p)
         \/ rate_check(p)
         \/ smtp_open(p)
         \/ send_one(p)
         \/ smtp_exit(p)
         \/ set_did_just_post(p)
         \/ log_failed(p)
         \/ log_succeeded(p)
    \/ Tick

Spec == Init /\ [][Next]_vars

SpecConc == InitConc /\ [][Next]_vars

SpecFilter == InitFilter /\ [][NextFilter]_vars

\* what the SMTP server answered in this run
Answered(p, o) == {attempts[p][i][1] : i \in {j \in 1..Len(attempts[p]) : attempts[p][j][2] = o}}
Attempted(p) == {attempts[p][i][1] : i \in 1..Len(attempts[p])}
Disconnected(p) == Answered(p, "disconnect") # {}

OriginalPath(p) == <<pathname_base[p], ".txt">>
FailPath(p) == <<pathname_base[p], "-fail.txt">>
SucceededPath(p) == <<pathname_base[p], "-succeeded.txt">>

\* C1: whenever Outgoing.send has returned, succeeded and failed partition
\* the recipient set: their union is the recipients and they are disjoint.
C1_SendPartitions ==
    \A p \in Procs :
        sendResult[p] = "returned" =>
            /\ succeeded[p] \cup failed[p] = config.recipients
            /\ succeeded[p] \cap failed[p] = {}

C1_Witness ==
    \E p \in Procs :
        /\ sendResult[p] = "returned"
        /\ Answered(p, "accepted") # {}
        /\ Answered(p, "rejected") # {}
        /\ Answered(p, "disconnect") # {}

\* C2: with reject_non_recipients set and a sender outside the recipients, a
\* run that has passed the authorization test has stopped there: no SMTP
\* session, no send attempt, no post record changed, and the archived
\* original is the only file the run wrote.
C2_NonMemberStops ==
    \A p \in Procs :
        ( /\ config.reject_non_recipients
          /\ sender[p] \notin config.recipients
          /\ pc[p] \notin {"idle", "Archive", "archive_original", "DB_enter", "authorize", "crashed"} )
        => /\ pc[p] = "rejected_not_recipient"
           /\ sessions[p] = 0
           /\ attempts[p] = <<>>
           /\ posts = posts0[p]
           /\ wrote[p] = {OriginalPath(p)}
           /\ OriginalPath(p) \in DOMAIN files
           /\ files[OriginalPath(p)] = message_bytes(p)

C2_Witness ==
    \E p \in Procs :
        /\ pc[p] = "rejected_not_recipient"
        /\ posts # <<>>
        /\ wrote[p] = {OriginalPath(p)}

\* C3: a run whose sender was rate-limited when checked (stored timestamp
\* plus window after the time of the check) has stopped there: no SMTP
\* session, no send attempt, every post record as before the run, no
\* outcome file written, and the original archived.
C3_RateLimitedStops ==
    \A p \in Procs :
        ( /\ checked[p] # <<>>
          /\ (IF checked[p][1] = NoRow THEN 0 ELSE checked[p][1][1]) + Window > checked[p][2] )
        => /\ pc[p] = "rejected_rate_limited"
           /\ sessions[p] = 0
           /\ attempts[p] = <<>>
           /\ posts = posts0[p]
           /\ wrote[p] = {OriginalPath(p)}
           /\ OriginalPath(p) \in DOMAIN files
           /\ files[OriginalPath(p)] = message_bytes(p)

C3_Witness ==
    \E p \in Procs :
        /\ pc[p] = "rejected_rate_limited"
        /\ sender[p] \in DOMAIN posts
        /\ posts[sender[p]] < now
        /\ wrote[p] = {OriginalPath(p)}

\* C4: once the server has disconnected during a send attempt, that attempt
\* is the last of the session; send returns, succeeded is the set accepted
\* before the disconnect and failed is every other recipient; the failed-list
\* file of the completed run holds exactly those.
C4_DisconnectAborts ==
    \A p \in Procs :
        Disconnected(p) =>
            /\ attempts[p][Len(attempts[p])][2] = "disconnect"
            /\ Cardinality(Answered(p, "disconnect")) = 1
            /\ pc[p] \notin {"send_loop", "smtp_exit", "crashed"}
            /\ pc[p] # "smtp_exit_disconnected" =>
                  /\ sendResult[p] = "returned"
                  /\ succeeded[p] = Answered(p, "accepted")
                  /\ failed[p] = config.recipients \ Answered(p, "accepted")
            /\ pc[p] = "completed" =>
                  /\ FailPath(p) \in DOMAIN files
                  /\ files[FailPath(p)] = config.recipients \ Answered(p, "accepted")

\* three recipients, two accepted, the server gone at the third
C4_Witness ==
    \E p \in Procs :
        /\ pc[p] = "completed"
        /\ Len(attempts[p]) = 3
        /\ attempts[p][1][2] = "accepted"
        /\ attempts[p][2][2] = "accepted"
        /\ attempts[p][3][2] = "disconnect"
        /\ succeeded[p] = {attempts[p][1][1], attempts[p][2][1]}
        /\ failed[p] = {attempts[p][3][1]}
        /\ files[FailPath(p)] = {attempts[p][3][1]}

\* C5: a rejection puts the recipient in fail and the loop goes on: when send
\* returns without a disconnect, every recipient was attempted, succeeded is
\* the accepted ones and failed the rejected ones.
C5_RejectionContinues ==
    \A p \in Procs :
        /\ (pc[p] \in {"send_loop", "smtp_exit"}) => Answered(p, "rejected") \subseteq fail[p]
        /\ (sendResult[p] = "returned" /\ ~Disconnected(p)) =>
              /\ Attempted(p) = config.recipients
              /\ Len(attempts[p]) = Cardinality(config.recipients)
              /\ succeeded[p] = Answered(p, "accepted")
              /\ failed[p] = Answered(p, "rejected")

C5_Witness ==
    \E p \in Procs :
        /\ sendResult[p] = "returned"
        /\ ~Disconnected(p)
        /\ Len(attempts[p]) = 3
        /\ attempts[p][1][2] = "rejected"
        /\ attempts[p][2][2] = "accepted"
        /\ attempts[p][3][2] = "rejected"

\* C6: once the send stage of a run is over and the run has gone past the
\* recording step, the sender's post record holds a time of this run no
\* earlier than the end of the send stage, whatever the delivery outcome.
C6_PostRecorded ==
    \A p \in Procs :
        (sendResult[p] # "none" /\ pc[p] # "record") =>
            /\ pc[p] \in {"log_failed", "log_succeeded", "completed"}
            /\ sender[p] \in DOMAIN posts
            /\ posts[sender[p]] >= sendEnd[p]
            /\ posts[sender[p]] <= now

\* a run in which nobody received the message replaces an older record
C6_Witness ==
    \E p \in Procs :
        /\ pc[p] = "completed"
        /\ succeeded[p] = {}
        /\ Disconnected(p)
        /\ sender[p] \in DOMAIN posts0[p]
        /\ posts[sender[p]] > posts0[p][sender[p]]

\* C7: the verdict of is_rate_limited at time t for stored timestamp T (0 for
\* a sender without a row) is true exactly when t < T + Window.
C7_RateLimitVerdict ==
    \A p \in Procs :
        checked[p] # <<>> =>
            LET T == IF sender[p] \in DOMAIN posts0[p] THEN posts0[p][sender[p]] ELSE 0
                t == checked[p][2]
            IN /\ t < T + Window => checked[p][3] = TRUE
               /\ t >= T + Window => checked[p][3] = FALSE

\* checked exactly when the window has run out
C7_Witness ==
    \E p \in Procs :
        /\ checked[p] # <<>>
        /\ checked[p][1] # NoRow
        /\ checked[p][2] = checked[p][1][1] + Window
        /\ checked[p][3] = FALSE

\* C8: no step replaces the content of a file that is already in the archive
\* directory (archive_original retries under another counter instead).
C8_NoArchiveOverwrite ==
    [][\A f \in DOMAIN files : f \in DOMAIN files' /\ files'[f] = files[f]]_vars

\* C9: all the files a run has written carry the basename assigned at its
\* first write, each with its own suffix, and that basename does not change.
C9_BasenameStable ==
    \A p \in Procs :
        /\ \A w \in wrote[p] : w[1] = pathname_base[p]
        /\ wrote[p] # {} => OriginalPath(p) \in wrote[p]
        /\ (pc[p] = "log_succeeded" /\ failed[p] # {}) => FailPath(p) \in wrote[p]
        /\ (pc[p] = "completed" /\ succeeded[p] # {}) => SucceededPath(p) \in wrote[p]

\* three files under one basename although the clock moved on in between
C9_Witness ==
    \E p \in Procs :
        /\ pc[p] = "completed"
        /\ wrote[p] = {OriginalPath(p), FailPath(p), SucceededPath(p)}
        /\ pathname_base[p][1] < sendEnd[p]
        /\ sendEnd[p] < now

\* C10: without an archive directory the Archive raises no error and the run
\* goes on to the authorization test.
C10_NoArchiveDirIsNoop ==
    \A p \in Procs :
        config.archive_dir = None => ~(pc[p] = "crashed" /\ err[p] = "Archive.__init__")

\* C11: without a store path the rate-limit stage is absent: the store is not
\* opened and the run goes on to authorization, filtering and sending.
C11_NoDbSkipsRateLimit ==
    \A p \in Procs :
        config.db = None => ~(pc[p] = "crashed" /\ err[p] = "DB.__enter__")

\* names listed in config['set_headers']
ForcedNames == {hdrcfg.set_headers[j][1] : j \in 1..Len(hdrcfg.set_headers)}
Rewritten == fstage.step = "rewritten"

\* C12: after the rewrite every header has a lower-cased name on the whitelist
\* or a name listed in set_headers.
C12_WhitelistInvariant ==
    Rewritten =>
        \A i \in 1..Len(headers) :
            \/ lower(headers[i][1]) \in hdrcfg.header_whitelist
            \/ headers[i][1] \in ForcedNames

\* a name outside the whitelist came in twice in two spellings, and a forced
\* header outside the whitelist is in the result
C12_Witness ==
    /\ Rewritten
    /\ fstage.pass = 1
    /\ "x-list" \notin hdrcfg.header_whitelist
    /\ \E i, j \in 1..Len(headers0) :
          i < j /\ headers0[i][1] = "X-List" /\ headers0[j][1] = "x-list"
    /\ \E k \in 1..Len(headers0) : headers0[k][1] = "X-Evil"
    /\ \E k \in 1..Len(headers) : lower(headers[k][1]) \notin hdrcfg.header_whitelist

\* v is cfg without its leading and trailing blanks
StrippedFrom(v, cfg) ==
    /\ v # <<>> => (v[1] # " " /\ v[Len(v)] # " ")
    /\ \E l \in 0..Len(cfg) :
          /\ l + Len(v) <= Len(cfg)
          /\ SubSeq(cfg, l + 1, l + Len(v)) = v
          /\ \A k \in (1..l) \cup ((l + Len(v) + 1)..Len(cfg)) : cfg[k] = " "

\* the last pair of set_headers whose name matches name, whatever its case
LastForced(name) ==
    LET ks == {k \in 1..Len(hdrcfg.set_headers) : lower(hdrcfg.set_headers[k][1]) = lower(name)}
    IN hdrcfg.set_headers[CHOOSE k \in ks : \A m \in ks : m <= k]

\* C13: after the rewrite each name of set_headers is matched, whatever its
\* case, by exactly one header, whose value is the stripped value of the last
\* pair configured for that name.
C13_ForcedHeadersWin ==
    Rewritten =>
        \A j \in 1..Len(hdrcfg.set_headers) :
            LET name == hdrcfg.set_headers[j][1]
                matches == {i \in 1..Len(headers) : lower(headers[i][1]) = lower(name)}
            IN /\ Cardinality(matches) = 1
               /\ \A i \in matches :
                     /\ headers[i][1] = LastForced(name)[1]
                     /\ StrippedFrom(headers[i][2], LastForced(name)[2])

\* the name came in several times, is configured twice with different values,
\* the last of them padded with blanks, and is on the whitelist
C13_Witness ==
    /\ Rewritten
    /\ fstage.pass = 1
    /\ Len(hdrcfg.set_headers) = 2
    /\ hdrcfg.set_headers[1] = <<"x-list", <<"u">>>>
    /\ hdrcfg.set_headers[2] = <<"X-List", <<" ", "t", " ">>>>
    /\ "x-list" \in hdrcfg.header_whitelist
    /\ Cardinality({i \in 1..Len(headers0) : lower(headers0[i][1]) = "x-list"}) >= 2
    /\ \E i \in 1..Len(headers) : headers[i] = <<"X-List", <<"t">>>>

\* C14: rewriting a rewritten message with the same configuration leaves the
\* ordered sequence of headers as it was.
C14_RewriteIdempotent ==
    (Rewritten /\ fstage.pass = 2) => headers = headers1

\* the first rewrite changed the message, and the second had a forced header
\* outside the whitelist to drop and put back
C14_Witness ==
    /\ Rewritten
    /\ fstage.pass = 2
    /\ headers1 # headers0
    /\ Len(hdrcfg.set_headers) = 2
    /\ Len(headers) >= 3
    /\ \E k \in 1..Len(headers) : lower(headers[k][1]) \notin hdrcfg.header_whitelist

\* C15: with archiving enabled the original is written before the store is
\* opened and before any decision, so every run that has gone past
\* archive_original, however it ends, has its original in the archive.
C15_OriginalArchivedFirst ==
    \A p \in Procs :
        config.archive_dir # None =>
            /\ pc[p] \in {"Archive", "archive_original"} =>
                  /\ ~dbOpen[p]
                  /\ checked[p] = <<>>
                  /\ sessions[p] = 0
            /\ pc[p] \notin {"idle", "Archive", "archive_original"} =>
                  /\ OriginalPath(p) \in wrote[p]
                  /\ OriginalPath(p) \in DOMAIN files
                  /\ files[OriginalPath(p)] = message_bytes(p)

\* the run was aborted when opening the store, the original already archived
C15_Witness ==
    \E p \in Procs :
        /\ pc[p] = "crashed"
        /\ err[p] = "DB.__enter__"
        /\ OriginalPath(p) \in DOMAIN files
        /\ files[OriginalPath(p)] = message_bytes(p)

\* C16: in a completed run with recipients and archiving, succeeded and failed
\* partition the recipients, each outcome file is written exactly when its
\* list is non-empty and holds that list, and every recipient is in exactly
\* one of the two files.
C16_OutcomeFilesPartition ==
    \A p \in Procs :
        (pc[p] = "completed" /\ config.archive_dir # None /\ config.recipients # {}) =>
            /\ succeeded[p] \cup failed[p] = config.recipients
            /\ succeeded[p] \cap failed[p] = {}
            /\ FailPath(p) \in wrote[p] <=> failed[p] # {}
            /\ SucceededPath(p) \in wrote[p] <=> succeeded[p] # {}
            /\ FailPath(p) \in wrote[p] => files[FailPath(p)] = failed[p]
            /\ SucceededPath(p) \in wrote[p] => files[SucceededPath(p)] = succeeded[p]

\* C17: with one invocation at a time, any two checks the same sender has
\* passed are at least the window apart.
C17_AcceptedPostsSpaced ==
    \A s \in Senders :
        \A i, j \in 1..Len(passed[s]) :
            i < j => passed[s][j] - passed[s][i] >= Window

\* the second post came exactly when the window had run out
C17_Witness ==
    \E s \in Senders :
        /\ Len(passed[s]) = 2
        /\ passed[s][2] = passed[s][1] + Window
        /\ s \in DOMAIN posts
        /\ posts[s] >= passed[s][2]

BetweenCheckAndUpdate(p) ==
    pc[p] \in {"smtp_open", "send_loop", "smtp_exit", "smtp_exit_disconnected", "record"}

\* C18: nothing serializes the check with the update: an invocation that has
\* reached the rate check can always take it, also while another invocation
\* of the same sender is between its own check and its update.
C18_CheckNotSerialized ==
    \A p \in active : pc[p] = "rate_check" => ENABLED rate_check(p)

\* both invocations of one sender passed the check on the same stored state,
\* within one window, and both sent before either recorded its post
C18_Witness ==
    \E p, q \in Procs :
        /\ p # q
        /\ sender[p] = sender[q]
        /\ pc[p] = "record" /\ pc[q] = "record"
        /\ checked[p][3] = FALSE /\ checked[q][3] = FALSE
        /\ checked[p][1] = checked[q][1]
        /\ checked[p][2] < checked[q][2]
        /\ checked[q][2] - checked[p][2] < Window
        /\ succeeded[p] = config.recipients /\ succeeded[q] = config.recipients
        /\ config.recipients # {}

\* what an invocation running alone reads and decides
AloneRow(p) == IF sender[p] \in DOMAIN posts0[p] THEN <<posts0[p][sender[p]]>> ELSE NoRow
AloneVerdict(p) == (IF AloneRow(p) = NoRow THEN 0 ELSE AloneRow(p)[1]) + Window > checked[p][2]

\* C19: no step deletes a post record, and a record changes only in the update
\* of a run by that sender; with invocations for different senders each reads
\* the row it would read alone, decides as it would alone, and its record
\* after the update is the one it wrote.
C19_SendersIndependent ==
    /\ [][ /\ \A x \in DOMAIN posts : x \in DOMAIN posts'
           /\ \A x \in DOMAIN posts' :
                 (x \notin DOMAIN posts \/ posts'[x] # posts[x]) =>
                     \E p \in Procs : /\ sender[p] = x
                                      /\ pc[p] = "record"
                                      /\ pc'[p] = "log_failed" ]_vars
    /\ [](\A p, q \in Procs :
            (p # q /\ sender[p] # sender[q] /\ checked[p] # <<>>) =>
                /\ checked[p][1] = AloneRow(p)
                /\ checked[p][3] = AloneVerdict(p)
                /\ pc[p] \in {"log_failed", "log_succeeded", "completed"} =>
                      /\ sender[p] \in DOMAIN posts
                      /\ posts[sender[p]] >= sendEnd[p]
                      /\ posts[sender[p]] <= now)

\* two overlapping runs of different senders, both recorded
C19_Witness ==
    \E p, q \in Procs :
        /\ p # q
        /\ sender[p] = "r1" /\ sender[q] = "eve"
        /\ pc[p] = "completed" /\ pc[q] = "completed"
        /\ checked[p][2] <= sendEnd[q] /\ checked[q][2] <= sendEnd[p]
        /\ DOMAIN posts = {"r1", "eve"}
        /\ posts["r1"] # posts["eve"]

\* C20: a run opens at most one SMTP session, tries each recipient at most
\* once, and the session is closed whenever send has ended.
C20_OneSessionOnePass ==
    \A p \in Procs :
        /\ sessions[p] <= 1
        /\ Cardinality(Attempted(p)) = Len(attempts[p])
        /\ Attempted(p) \subseteq config.recipients
        /\ smtpOpen[p] => (sessions[p] = 1 /\ pc[p] \in {"send_loop", "smtp_exit", "smtp_exit_disconnected"})
        /\ sendResult[p] # "none" => ~smtpOpen[p]
        /\ pc[p] \in Ended => ~smtpOpen[p]

\* an error left send after a rejection: the session is closed, nobody retried
C20_Witness ==
    \E p \in Procs :
        /\ sendResult[p] = "raised"
        /\ sessions[p] = 1
        /\ ~smtpOpen[p]
        /\ Len(attempts[p]) = 3
        /\ Answered(p, "rejected") # {}
        /\ pc[p] = "completed"

====
